---- MODULE Spec2Model ----
(***************************************************************************)
(* Model of pvsyst_parser.py: the two positional record parsers            *)
(* (parse_inverter_data with its nested parse_frequency, and               *)
(* parse_solar_panel_data), the two aggregation loops of main() and the    *)
(* Add/Remove instance counters kept in the session state.                 *)
(*                                                                         *)
(* Representation.  A Python str is a sequence of characters, a character  *)
(* is a one-element atom ("5", " ", ";", ...).  The character U+00B2       *)
(* SUPERSCRIPT TWO is written Sup2.  A float is modelled by an integer:    *)
(* the input alphabet has no '.', no exponent and no letters of inf/nan,   *)
(* so every literal float() accepts here is [ws][sign]digits[ws].          *)
(* Panel_Area_m2 is held in thousandths (it is rounded to 3 decimals) and  *)
(* Efficiency_percent in hundredths (rounded to 2 decimals).               *)
(* Python's zero-based fields[k] is Field(fields, k), that is fields[k+1]. *)
(***************************************************************************)
EXTENDS Integers, Sequences, FiniteSets, TLC

VARIABLES
    raw_data,        \* argument of a single parse_* call
    parsed_data,     \* its return value
    pc,              \* "call_<kind>" before a parse, "return_<kind>" after it
    num_inverters,   \* st.session_state.num_inverters
    num_panels,      \* st.session_state.num_panels
    inverter_texts,  \* contents of the text areas inverter_0 .. inverter_{n-1}
    panel_texts,     \* contents of the text areas panel_0 .. panel_{n-1}
    inverter_data,   \* aggregate built by the first loop of main()
    panel_data,      \* aggregate built by the second loop of main()
    i_inv,           \* number of iterations the inverter loop has done
    i_panel,         \* number of iterations the panel loop has done
    st_errors        \* st.error notifications: <<kind, text area index>>

vars == <<raw_data, parsed_data, pc, num_inverters, num_panels,
          inverter_texts, panel_texts, inverter_data, panel_data,
          i_inv, i_panel, st_errors>>

----------------------------------------------------------------------------
(* Bounds of the model *)

MaxTokLen == 3      \* length of the exhaustively enumerated tokens
MaxAreas == 4       \* text areas, both kinds together, in a run of main()

----------------------------------------------------------------------------
(* Python str primitives *)

Sup2 == "sup2"
Whitespace == {" "}
DecimalChars == {"0", "1", "2", "3", "4", "5", "6", "7", "8", "9"}
\* characters for which str.isdigit() is true but which int() rejects
DigitOnlyChars == {Sup2}

DigitVal(c) ==
    CASE c = "0" -> 0 [] c = "1" -> 1 [] c = "2" -> 2 [] c = "3" -> 3
      [] c = "4" -> 4 [] c = "5" -> 5 [] c = "6" -> 6 [] c = "7" -> 7
      [] c = "8" -> 8 [] c = "9" -> 9

RECURSIVE LStrip(_)
LStrip(s) ==
    IF s # <<>> /\ Head(s) \in Whitespace THEN LStrip(Tail(s)) ELSE s

RECURSIVE RStrip(_)
RStrip(s) ==
    IF s # <<>> /\ s[Len(s)] \in Whitespace
    THEN RStrip(SubSeq(s, 1, Len(s) - 1)) ELSE s

\* str.strip()
Strip(s) == RStrip(LStrip(s))

LowerChar(c) ==
    CASE c = "H" -> "h" [] c = "Z" -> "z" [] c = "N" -> "n" [] c = "A" -> "a"
      [] OTHER -> c

\* str.lower()
Lower(s) == [i \in 1..Len(s) |-> LowerChar(s[i])]

\* sub in s
Contains(s, sub) ==
    \E i \in 0..(Len(s) - Len(sub)) : SubSeq(s, i + 1, i + Len(sub)) = sub

\* s.replace(old, ''), old non-empty: left to right, non-overlapping
RECURSIVE Remove(_, _)
Remove(s, old) ==
    IF Len(s) < Len(old) THEN s
    ELSE IF SubSeq(s, 1, Len(old)) = old
         THEN Remove(SubSeq(s, Len(old) + 1, Len(s)), old)
         ELSE <<Head(s)>> \o Remove(Tail(s), old)

\* index of the first ';' of s at or after i, Len(s) + 1 when there is none
RECURSIVE TokenEnd(_, _)
TokenEnd(s, i) ==
    IF i > Len(s) \/ s[i] = ";" THEN i ELSE TokenEnd(s, i + 1)

\* the pieces of s from index start on
RECURSIVE SplitFrom(_, _)
SplitFrom(s, start) ==
    LET end == TokenEnd(s, start)
    IN IF end > Len(s) THEN <<SubSeq(s, start, Len(s))>>
       ELSE <<SubSeq(s, start, end - 1)>> \o SplitFrom(s, end + 1)

\* raw_data.split(';'): a string with n separators has n + 1 pieces, empty
\* ones included
Split(s) == SplitFrom(s, 1)

\* body of a numeric literal once whitespace and an optional sign are gone
Unsigned(s) ==
    LET t == Strip(s)
    IN IF t # <<>> /\ t[1] \in {"+", "-"} THEN Tail(t) ELSE t

Negative(s) == LET t == Strip(s) IN t # <<>> /\ t[1] = "-"

RECURSIVE DigitsValue(_)
DigitsValue(d) ==
    IF d = <<>> THEN 0
    ELSE 10 * DigitsValue(SubSeq(d, 1, Len(d) - 1)) + DigitVal(d[Len(d)])

\* float(s) / int(s) return (FALSE: ValueError is raised)
IsNumber(s) ==
    LET d == Unsigned(s)
    IN d # <<>> /\ \A i \in 1..Len(d) : d[i] \in DecimalChars

\* value returned by float(s) / int(s) when no ValueError is raised
NumberValue(s) ==
    IF Negative(s) THEN 0 - DigitsValue(Unsigned(s))
    ELSE DigitsValue(Unsigned(s))

\* str.isdigit()
IsDigit(s) ==
    s # <<>> /\ \A i \in 1..Len(s) : s[i] \in DecimalChars \cup DigitOnlyChars

----------------------------------------------------------------------------
(* Field access *)

\* len(fields) > k
HasField(fields, k) == Len(fields) > k

\* fields[k]
Field(fields, k) == fields[k + 1]

\* str(fields[k]).strip() if len(fields) > k else ""
StrField(fields, k) == IF HasField(fields, k) THEN Strip(Field(fields, k)) ELSE <<>>

\* the guard "len(fields) > k and fields[k] and fields[k].strip()"
FloatPresent(fields, k) ==
    /\ HasField(fields, k)
    /\ Field(fields, k) # <<>>
    /\ Strip(Field(fields, k)) # <<>>

\* float(fields[k]) if <guard> else 0 : does the conversion raise
FloatRaises(fields, k) == FloatPresent(fields, k) /\ ~IsNumber(Field(fields, k))

\* float(fields[k]) if <guard> else 0 : value when it does not raise
FloatField(fields, k) ==
    IF FloatPresent(fields, k) THEN NumberValue(Field(fields, k)) ELSE 0

None == [ok |-> FALSE]
Some(specs) == [ok |-> TRUE, specs |-> specs]

----------------------------------------------------------------------------
(* parse_inverter_data *)

DualRating == <<"5", "0", "/", "6", "0">>
UnitHz == <<"h", "z">>

\* variant: the dual-rating marker is compared with the whole string
parse_frequency_ExactMatch(freq_str) ==
    IF freq_str = <<>> THEN 0
    ELSE LET s == Lower(Strip(freq_str))
         IN IF s = DualRating THEN 50
            ELSE LET t == Strip(Remove(s, UnitHz))
                 IN IF IsNumber(t) THEN NumberValue(t) ELSE 0

\* variant: only a unit marker at the end of the string is removed
parse_frequency_TrailingOnly(freq_str) ==
    IF freq_str = <<>> THEN 0
    ELSE LET s == Lower(Strip(freq_str))
         IN IF Contains(s, DualRating) THEN 50
            ELSE LET t == IF Len(s) >= 2 /\ SubSeq(s, Len(s) - 1, Len(s)) = UnitHz
                          THEN Strip(SubSeq(s, 1, Len(s) - 2))
                          ELSE s
                 IN IF IsNumber(t) THEN NumberValue(t) ELSE 0

parse_frequency(freq_str) ==
    IF freq_str = <<>> THEN 0
    ELSE LET s == Lower(Strip(freq_str))
         IN IF Contains(s, DualRating) THEN 50
            ELSE LET t == Strip(Remove(s, UnitHz))
                 IN IF IsNumber(t) THEN NumberValue(t) ELSE 0

InverterFloatIdx == {7, 8, 9, 10, 11, 17, 18, 19, 20, 24, 29, 30, 39}

inverter_specs(fields) ==
    [Manufacturer          |-> StrField(fields, 1),
     Model                 |-> StrField(fields, 2),
     File_Name             |-> StrField(fields, 3),
     Data_Source           |-> StrField(fields, 4),
     Nominal_AC_Power_kW   |-> FloatField(fields, 7),
     Maximum_AC_Power_kW   |-> FloatField(fields, 8),
     Nominal_AC_current_A  |-> FloatField(fields, 9),
     Maximum_AC_current_A  |-> FloatField(fields, 10),
     Nominal_AC_Voltage_V  |-> FloatField(fields, 11),
     Phase                 |-> StrField(fields, 12),
     Frequency_Hz          |-> IF HasField(fields, 13)
                               THEN parse_frequency(Field(fields, 13)) ELSE 0,
     Power_threshold_W     |-> FloatField(fields, 17),
     Nominal_MPP_Voltage_V |-> FloatField(fields, 18),
     Min_MPP_Voltage_V     |-> FloatField(fields, 19),
     Max_DC_Voltage_V      |-> FloatField(fields, 20),
     Max_DC_Current_A      |-> FloatField(fields, 24),
     Total_String_Inputs   |-> FloatField(fields, 29),
     Total_MPPT            |-> FloatField(fields, 30),
     Night_Consumption_W   |-> FloatField(fields, 39)]

\* variant: fields[39] is read without the length guard, so a line without
\* token 39 raises IndexError
parse_inverter_data_IndexError(raw) ==
    LET fields == Split(raw)
    IN IF \/ ~HasField(fields, 39)
          \/ \E k \in InverterFloatIdx : FloatRaises(fields, k)
       THEN None
       ELSE Some(inverter_specs(fields))

parse_inverter_data(raw) ==
    LET fields == Split(raw)
    IN IF \E k \in InverterFloatIdx : FloatRaises(fields, k)
       THEN None
       ELSE Some(inverter_specs(fields))

----------------------------------------------------------------------------
(* parse_solar_panel_data *)

\* how round() resolves a decimal tie: the tie itself is not representable
\* in binary floating point, so the float handed to round() lies on either
\* side of it
TieChoices == {"down", "up"}

\* round(n / d, .) counted in units of the last kept decimal, d > 0
Round(n, d, tie) ==
    LET q == n \div d
        r == n % d
    IN IF 2 * r < d THEN q
       ELSE IF 2 * r > d THEN q + 1
       ELSE IF tie = "up" THEN q + 1 ELSE q

PanelFloatIdx == {7, 35, 15, 16, 17, 18, 19, 20, 22, 40, 41, 43}
PanelIntIdx == {12, 13}

\* the guard "len(fields) > k and fields[k] and fields[k].strip().isdigit()"
IntPresent(fields, k) ==
    /\ HasField(fields, k)
    /\ Field(fields, k) # <<>>
    /\ IsDigit(Strip(Field(fields, k)))

\* int(fields[k]) if <guard> else 0 : does the conversion raise
IntRaises(fields, k) == IntPresent(fields, k) /\ ~IsNumber(Field(fields, k))

\* int(fields[k]) if <guard> else 0 : value when it does not raise
IntField(fields, k) ==
    IF IntPresent(fields, k) THEN NumberValue(Field(fields, k)) ELSE 0

panel_specs(fields) ==
    [Manufacturer        |-> StrField(fields, 1),
     Model               |-> StrField(fields, 2),
     File_Name           |-> StrField(fields, 3),
     Data_Source         |-> StrField(fields, 4),
     Nominal_Power_W     |-> FloatField(fields, 7),
     Technology          |-> IF HasField(fields, 11) /\ Field(fields, 11) # <<>>
                             THEN Strip(Field(fields, 11)) ELSE <<>>,
     Cells_in_Series     |-> IntField(fields, 12),
     Cells_in_Parallel   |-> IntField(fields, 13),
     Maximum_Voltage_IEC |-> FloatField(fields, 35),
     NOCT_C              |-> FloatField(fields, 15),
     Vmp_V               |-> FloatField(fields, 16),
     Imp_A               |-> FloatField(fields, 17),
     Voc_V               |-> FloatField(fields, 18),
     Isc_A               |-> FloatField(fields, 19),
     Current_Temp_Coeff  |-> FloatField(fields, 20),
     Power_Temp_Coeff    |-> FloatField(fields, 22),
     Module_Length       |-> FloatField(fields, 40),
     Module_Width        |-> FloatField(fields, 41),
     Module_Weight       |-> FloatField(fields, 43)]

\* variant: the area is cut to 3 decimals instead of rounded
Panel_Area_m2_Truncated(specs, tie) ==
    (specs.Module_Length * specs.Module_Width) \div 1000

\* round(length_m * width_m, 3), in thousandths of a square metre
Panel_Area_m2(specs, tie) ==
    Round(specs.Module_Length * specs.Module_Width, 1000, tie)

\* variant: the guard tests the product before rounding, and the division
\* is by at least one thousandth
Efficiency_percent_UnroundedGuard(specs, area, tie) ==
    IF specs.Module_Length * specs.Module_Width > 0
    THEN Round(10000 * specs.Nominal_Power_W, IF area > 0 THEN area ELSE 1, tie)
    ELSE 0

\* the if/else on Panel_Area_m2 > 0, in hundredths of a percent
Efficiency_percent(specs, area, tie) ==
    IF area > 0 THEN Round(10000 * specs.Nominal_Power_W, area, tie) ELSE 0

\* variant: the else branch is missing, Efficiency_percent is set only for a
\* positive area
WithDerived_NoElse(specs, tieArea, tieEff) ==
    LET area == Panel_Area_m2(specs, tieArea)
        base == [k \in DOMAIN specs \cup {"Panel_Area_m2"} |->
                    IF k = "Panel_Area_m2" THEN area ELSE specs[k]]
    IN IF area > 0
       THEN [k \in DOMAIN base \cup {"Efficiency_percent"} |->
                IF k = "Efficiency_percent"
                THEN Efficiency_percent(specs, area, tieEff) ELSE base[k]]
       ELSE base

WithDerived(specs, tieArea, tieEff) ==
    LET area == Panel_Area_m2(specs, tieArea)
        base == [k \in DOMAIN specs \cup {"Panel_Area_m2"} |->
                    IF k = "Panel_Area_m2" THEN area ELSE specs[k]]
    IN [k \in DOMAIN base \cup {"Efficiency_percent"} |->
           IF k = "Efficiency_percent"
           THEN Efficiency_percent(specs, area, tieEff) ELSE base[k]]

parse_solar_panel_data(raw, tieArea, tieEff) ==
    LET fields == Split(raw)
    IN IF \/ \E k \in PanelFloatIdx : FloatRaises(fields, k)
          \/ \E k \in PanelIntIdx : IntRaises(fields, k)
       THEN None
       ELSE Some(WithDerived(panel_specs(fields), tieArea, tieEff))

----------------------------------------------------------------------------
(* Inputs: the raw lines the parsers are run on *)

RECURSIVE Join(_)
Join(tokens) ==
    IF tokens = <<>> THEN <<>>
    ELSE IF Len(tokens) = 1 THEN tokens[1]
         ELSE tokens[1] \o <<";">> \o Join(Tail(tokens))

\* the token sequence tokens with the token at zero-based index k set to t
With(tokens, k, t) == [tokens EXCEPT ![k + 1] = t]

\* all strings over an alphabet, up to a length
Strings(alphabet, n) == UNION {[1..m -> alphabet] : m \in 0..n}

NA == <<"N", "/", "A">>

InverterBase ==
    [i \in 1..41 |->
        CASE i - 1 = 1  -> <<"S", "M", "A">>
          [] i - 1 = 2  -> <<" ", "S", "B", "5">>
          [] i - 1 = 3  -> <<"f">>
          [] i - 1 = 4  -> <<"d", "b">>
          [] i - 1 = 7  -> <<"5">>
          [] i - 1 = 8  -> <<"6">>
          [] i - 1 = 9  -> <<"2", "1">>
          [] i - 1 = 10 -> <<"2", "5">>
          [] i - 1 = 11 -> <<"2", "3", "0">>
          [] i - 1 = 12 -> <<"M", "o", "n", "o", " ">>
          [] i - 1 = 13 -> <<"6", "0", "H", "z">>
          [] i - 1 = 17 -> <<"1", "0">>
          [] i - 1 = 18 -> <<"4", "0", "0">>
          [] i - 1 = 19 -> <<"1", "2", "5">>
          [] i - 1 = 20 -> <<"6", "0", "0">>
          [] i - 1 = 24 -> <<"1", "5">>
          [] i - 1 = 29 -> <<"2">>
          [] i - 1 = 30 -> <<"3">>
          [] i - 1 = 39 -> <<"1">>
          [] OTHER -> <<>>]

PanelBase ==
    [i \in 1..44 |->
        CASE i - 1 = 1  -> <<"J", "A">>
          [] i - 1 = 2  -> <<"M", "1", " ">>
          [] i - 1 = 3  -> <<"f">>
          [] i - 1 = 4  -> <<"d", "b">>
          [] i - 1 = 7  -> <<"3", "5", "0">>
          [] i - 1 = 11 -> <<"S", "i">>
          [] i - 1 = 12 -> <<"7", "2">>
          [] i - 1 = 13 -> <<"1">>
          [] i - 1 = 15 -> <<"4", "5">>
          [] i - 1 = 16 -> <<"3", "8">>
          [] i - 1 = 17 -> <<"9">>
          [] i - 1 = 18 -> <<"4", "6">>
          [] i - 1 = 19 -> <<"1", "0">>
          [] i - 1 = 20 -> <<"5">>
          [] i - 1 = 22 -> <<"-", "4">>
          [] i - 1 = 35 -> <<"1", "0", "0", "0">>
          [] i - 1 = 40 -> <<"1", "7", "0", "0">>
          [] i - 1 = 41 -> <<"1", "0", "0", "0">>
          [] i - 1 = 43 -> <<"1", "9">>
          [] OTHER -> <<>>]

FreqAlphabet == {"5", "0", "h", "z", "H", " ", "/"}
FreqExamples ==
    {<<"5", "0", "/", "6", "0", "H", "z">>, <<"5", "0">>,
     <<"5", "0", "H", "z">>, <<" ", "6", "0", " ", "h", "z", " ">>,
     <<"h", "z", "5", "0">>, <<"5", "h", "z", "0">>, <<"6", "0", "H", "Z">>,
     <<"1", "5", "0", "/", "6", "0", "0">>, NA}
FreqTokens ==
    Strings(FreqAlphabet, MaxTokLen)
      \cup {p \o DualRating \o q : p, q \in Strings(FreqAlphabet, 1)}
      \cup FreqExamples

BadFloatTokens ==
    {NA, <<" ">>, <<"h", "z">>, <<"-">>, <<" ", "5", " ">>, <<"-", "5">>,
     <<"+", "5">>, <<Sup2>>}

InverterLines ==
    {Join(With(InverterBase, 13, t)) : t \in FreqTokens}
      \cup {Join(SubSeq(InverterBase, 1, n)) : n \in 0..41}
      \cup {Join(SubSeq(With(InverterBase, k, t), 1, n)) :
               k \in InverterFloatIdx, t \in BadFloatTokens, n \in {14, 41}}

CellAlphabet == {"1", "2", " ", Sup2, "a", "-"}
CellTokens == Strings(CellAlphabet, MaxTokLen)

LengthTokens ==
    {<<>>, <<"0">>, <<"1">>, <<"5", "0", "0">>, <<"1", "0", "0", "0">>,
     <<"1", "7", "0", "0">>, <<"-", "1", "7", "0", "0">>,
     <<"2", "5", "0", "0">>, NA}
WidthTokens ==
    {<<>>, <<"0">>, <<"1">>, <<"9", "9", "2">>, <<"1", "0", "0", "0">>}
PowerTokens ==
    {<<>>, <<"0">>, <<"5">>, <<"-", "5">>, <<"3", "5", "0">>, NA}

PanelLines ==
    {Join(With(PanelBase, k, t)) : k \in PanelIntIdx, t \in CellTokens}
      \cup {Join(With(With(With(PanelBase, 40, l), 41, w), 7, p)) :
               l \in LengthTokens, w \in WidthTokens, p \in PowerTokens}
      \cup {Join(SubSeq(PanelBase, 1, n)) : n \in 0..44}
      \cup {Join(SubSeq(With(PanelBase, k, t), 1, n)) :
               k \in PanelFloatIdx, t \in BadFloatTokens, n \in {23, 44}}

\* what a text area of main() can hold; <<>> is an area left empty
InverterTexts ==
    {<<>>, Join(InverterBase),
     Join(With(InverterBase, 13, <<"5", "0", "/", "6", "0", "H", "z">>)),
     Join(With(InverterBase, 7, NA))}

PanelTexts ==
    {<<>>, Join(PanelBase),
     Join(With(PanelBase, 40, NA)),
     Join(SubSeq(PanelBase, 1, 8))}

----------------------------------------------------------------------------
(* One call of a parser *)

Idle ==
    /\ num_inverters = 1 /\ num_panels = 1
    /\ inverter_texts = <<>> /\ panel_texts = <<>>
    /\ inverter_data = <<>> /\ panel_data = <<>>
    /\ i_inv = 0 /\ i_panel = 0
    /\ st_errors = <<>>

mainVars == <<num_inverters, num_panels, inverter_texts, panel_texts,
              inverter_data, panel_data, i_inv, i_panel, st_errors>>

InitParse ==
    /\ \/ pc = "call_inverter" /\ raw_data \in InverterLines
       \/ pc = "call_panel" /\ raw_data \in PanelLines
    /\ parsed_data = None
    /\ Idle

CallParseInverter ==
    /\ pc = "call_inverter"
    /\ parsed_data' = parse_inverter_data(raw_data)
    /\ pc' = "return_inverter"
    /\ UNCHANGED <<raw_data, mainVars>>

CallParsePanel ==
    /\ pc = "call_panel"
    /\ \E tieArea \in TieChoices, tieEff \in TieChoices :
          parsed_data' = parse_solar_panel_data(raw_data, tieArea, tieEff)
    /\ pc' = "return_panel"
    /\ UNCHANGED <<raw_data, mainVars>>

NextParse == CallParseInverter \/ CallParsePanel

SpecParse == InitParse /\ [][NextParse]_vars

----------------------------------------------------------------------------
(* main(): the session counters *)

MaxInverters == 50
MaxPanels == 50

InitCounters ==
    /\ raw_data = <<>> /\ parsed_data = None /\ pc = "main"
    /\ Idle

\* variant: the limit is tested with <=
AddInverter_OffByOne ==
    /\ num_inverters' =
          IF num_inverters <= MaxInverters THEN num_inverters + 1
          ELSE num_inverters
    /\ UNCHANGED <<raw_data, parsed_data, pc, num_panels, inverter_texts,
                   panel_texts, inverter_data, panel_data, i_inv, i_panel,
                   st_errors>>

\* click on 'Add Inverter'
AddInverter ==
    /\ num_inverters' =
          IF num_inverters < MaxInverters THEN num_inverters + 1
          ELSE num_inverters
    /\ UNCHANGED <<raw_data, parsed_data, pc, num_panels, inverter_texts,
                   panel_texts, inverter_data, panel_data, i_inv, i_panel,
                   st_errors>>

\* click on 'Remove Inverter'
RemoveInverter ==
    /\ num_inverters' =
          IF num_inverters > 1 THEN num_inverters - 1 ELSE num_inverters
    /\ UNCHANGED <<raw_data, parsed_data, pc, num_panels, inverter_texts,
                   panel_texts, inverter_data, panel_data, i_inv, i_panel,
                   st_errors>>

\* click on 'Add Panel'
AddPanel ==
    /\ num_panels' =
          IF num_panels < MaxPanels THEN num_panels + 1 ELSE num_panels
    /\ UNCHANGED <<raw_data, parsed_data, pc, num_inverters, inverter_texts,
                   panel_texts, inverter_data, panel_data, i_inv, i_panel,
                   st_errors>>

\* click on 'Remove Panel'
RemovePanel ==
    /\ num_panels' =
          IF num_panels > 1 THEN num_panels - 1 ELSE num_panels
    /\ UNCHANGED <<raw_data, parsed_data, pc, num_inverters, inverter_texts,
                   panel_texts, inverter_data, panel_data, i_inv, i_panel,
                   st_errors>>

NextCounters == AddInverter \/ RemoveInverter \/ AddPanel \/ RemovePanel

SpecCounters == InitCounters /\ [][NextCounters]_vars

----------------------------------------------------------------------------
(* main(): the two aggregation loops of one script run *)

\* column_order of the inverter export
inverter_column_order ==
    <<"Manufacturer", "Model", "File_Name", "Data_Source",
      "Nominal_AC_Power_kW", "Maximum_AC_Power_kW",
      "Nominal_AC_current_A", "Maximum_AC_current_A",
      "Nominal_AC_Voltage_V", "Phase", "Frequency_Hz",
      "Power_threshold_W", "Nominal_MPP_Voltage_V",
      "Min_MPP_Voltage_V", "Max_DC_Voltage_V",
      "Max_DC_Current_A", "Total_MPPT",
      "Total_String_Inputs", "Night_Consumption_W">>

\* column_order of the panel export
panel_column_order ==
    <<"Manufacturer", "Model", "File_Name", "Data_Source",
      "Nominal_Power_W", "Technology", "Cells_in_Series",
      "Cells_in_Parallel", "Maximum_Voltage_IEC", "NOCT_C",
      "Vmp_V", "Imp_A", "Voc_V", "Isc_A",
      "Current_Temp_Coeff", "Power_Temp_Coeff",
      "Module_Length", "Module_Width", "Module_Weight",
      "Panel_Area_m2", "Efficiency_percent">>

Init ==
    /\ raw_data = <<>> /\ parsed_data = None /\ pc = "main"
    /\ num_inverters \in 1..(MaxAreas - 1)
    /\ num_panels \in 1..(MaxAreas - num_inverters)
    /\ inverter_texts \in [1..num_inverters -> InverterTexts]
    /\ panel_texts \in [1..num_panels -> PanelTexts]
    /\ inverter_data = <<>> /\ panel_data = <<>>
    /\ i_inv = 0 /\ i_panel = 0
    /\ st_errors = <<>>

\* variant: the test "if parsed_data" is missing, a failed parse is appended
InverterLoopStep_Placeholder ==
    /\ i_inv < num_inverters
    /\ LET data == inverter_texts[i_inv + 1]
           parsed == parse_inverter_data(data)
       IN /\ raw_data' = data
          /\ parsed_data' = IF data # <<>> THEN parsed ELSE parsed_data
          /\ inverter_data' =
                IF data # <<>>
                THEN Append(inverter_data, IF parsed.ok THEN parsed.specs ELSE None)
                ELSE inverter_data
          /\ st_errors' =
                IF data # <<>> /\ ~parsed.ok
                THEN Append(st_errors, <<"inverter", i_inv>>)
                ELSE st_errors
    /\ i_inv' = i_inv + 1
    /\ UNCHANGED <<pc, num_inverters, num_panels, inverter_texts, panel_texts,
                   panel_data, i_panel>>

\* one iteration of "for i in range(st.session_state.num_inverters)"
InverterLoopStep ==
    /\ i_inv < num_inverters
    /\ LET data == inverter_texts[i_inv + 1]
           parsed == parse_inverter_data(data)
       IN /\ raw_data' = data
          /\ parsed_data' = IF data # <<>> THEN parsed ELSE parsed_data
          /\ inverter_data' =
                IF data # <<>> /\ parsed.ok THEN Append(inverter_data, parsed.specs)
                ELSE inverter_data
          /\ st_errors' =
                IF data # <<>> /\ ~parsed.ok
                THEN Append(st_errors, <<"inverter", i_inv>>)
                ELSE st_errors
    /\ i_inv' = i_inv + 1
    /\ UNCHANGED <<pc, num_inverters, num_panels, inverter_texts, panel_texts,
                   panel_data, i_panel>>

\* variant: a failed parse ends the loop, the remaining text areas are not
\* parsed
PanelLoopStep_AbortOnError ==
    /\ i_inv = num_inverters
    /\ i_panel < num_panels
    /\ \E tieArea \in TieChoices, tieEff \in TieChoices :
          LET data == panel_texts[i_panel + 1]
              parsed == parse_solar_panel_data(data, tieArea, tieEff)
          IN /\ raw_data' = data
             /\ parsed_data' = IF data # <<>> THEN parsed ELSE parsed_data
             /\ panel_data' =
                   IF data # <<>> /\ parsed.ok THEN Append(panel_data, parsed.specs)
                   ELSE panel_data
             /\ st_errors' =
                   IF data # <<>> /\ ~parsed.ok
                   THEN Append(st_errors, <<"panel", i_panel>>)
                   ELSE st_errors
             /\ i_panel' = IF data # <<>> /\ ~parsed.ok THEN num_panels
                           ELSE i_panel + 1
    /\ UNCHANGED <<pc, num_inverters, num_panels, inverter_texts, panel_texts,
                   inverter_data, i_inv>>

\* one iteration of "for i in range(st.session_state.num_panels)"
PanelLoopStep ==
    /\ i_inv = num_inverters
    /\ i_panel < num_panels
    /\ \E tieArea \in TieChoices, tieEff \in TieChoices :
          LET data == panel_texts[i_panel + 1]
              parsed == parse_solar_panel_data(data, tieArea, tieEff)
          IN /\ raw_data' = data
             /\ parsed_data' = IF data # <<>> THEN parsed ELSE parsed_data
             /\ panel_data' =
                   IF data # <<>> /\ parsed.ok THEN Append(panel_data, parsed.specs)
                   ELSE panel_data
             /\ st_errors' =
                   IF data # <<>> /\ ~parsed.ok
                   THEN Append(st_errors, <<"panel", i_panel>>)
                   ELSE st_errors
    /\ i_panel' = i_panel + 1
    /\ UNCHANGED <<pc, num_inverters, num_panels, inverter_texts, panel_texts,
                   inverter_data, i_inv>>

Next == InverterLoopStep \/ PanelLoopStep

Spec == Init /\ [][Next]_vars

----------------------------------------------------------------------------
(* Vocabulary of the properties *)

\* positional mapping: <<key, zero-based token index, semantic type>>
InverterSchema ==
    {<<"Manufacturer", 1, "string">>, <<"Model", 2, "string">>,
     <<"File_Name", 3, "string">>, <<"Data_Source", 4, "string">>,
     <<"Nominal_AC_Power_kW", 7, "float">>,
     <<"Maximum_AC_Power_kW", 8, "float">>,
     <<"Nominal_AC_current_A", 9, "float">>,
     <<"Maximum_AC_current_A", 10, "float">>,
     <<"Nominal_AC_Voltage_V", 11, "float">>, <<"Phase", 12, "string">>,
     <<"Frequency_Hz", 13, "frequency">>,
     <<"Power_threshold_W", 17, "float">>,
     <<"Nominal_MPP_Voltage_V", 18, "float">>,
     <<"Min_MPP_Voltage_V", 19, "float">>,
     <<"Max_DC_Voltage_V", 20, "float">>,
     <<"Max_DC_Current_A", 24, "float">>,
     <<"Total_String_Inputs", 29, "float">>, <<"Total_MPPT", 30, "float">>,
     <<"Night_Consumption_W", 39, "float">>}

PanelSchema ==
    {<<"Manufacturer", 1, "string">>, <<"Model", 2, "string">>,
     <<"File_Name", 3, "string">>, <<"Data_Source", 4, "string">>,
     <<"Nominal_Power_W", 7, "float">>, <<"Technology", 11, "string">>,
     <<"Cells_in_Series", 12, "integer">>,
     <<"Cells_in_Parallel", 13, "integer">>,
     <<"NOCT_C", 15, "float">>, <<"Vmp_V", 16, "float">>,
     <<"Imp_A", 17, "float">>, <<"Voc_V", 18, "float">>,
     <<"Isc_A", 19, "float">>, <<"Current_Temp_Coeff", 20, "float">>,
     <<"Power_Temp_Coeff", 22, "float">>,
     <<"Maximum_Voltage_IEC", 35, "float">>,
     <<"Module_Length", 40, "float">>, <<"Module_Width", 41, "float">>,
     <<"Module_Weight", 43, "float">>}

Abs(x) == IF x < 0 THEN 0 - x ELSE x

Range(seq) == {seq[m] : m \in 1..Len(seq)}

\* the declared keys: those of the column orders of main()
InverterKeys == Range(inverter_column_order)
PanelKeys == Range(panel_column_order)

\* the tokens of the line handed to the parser
Tokens == Split(raw_data)

\* the token at index k is there and is not blank
Present(fields, k) == Len(fields) > k /\ Strip(fields[k + 1]) # <<>>

\* a float-typed position of the line holds a present token that is no number
MalformedFloat(line, schema) ==
    LET fields == Split(line)
    IN /\ line # <<>>
       /\ \E e \in schema :
             /\ e[3] = "float"
             /\ Present(fields, e[2])
             /\ ~IsNumber(fields[e[2] + 1])

\* the panel records the parser can return for a line
PanelRecords(line) ==
    {parse_solar_panel_data(line, ta, te).specs : ta \in TieChoices, te \in TieChoices}

InverterOk(line) == line # <<>> /\ parse_inverter_data(line).ok
PanelOk(line) == line # <<>> /\ parse_solar_panel_data(line, "down", "down").ok

----------------------------------------------------------------------------
(* Properties of the aggregation loops *)

\* C1: a line with a present, non-numeric token at a float position makes
\* the parser return None for that line only: the failure is reported for
\* that text area, the line adds no record, and every line of the batch whose
\* own parse succeeds, before or after it, has its record in the aggregate.
C1_MalformedLineRejectedAlone ==
    /\ \A j \in 1..i_inv :
          MalformedFloat(inverter_texts[j], InverterSchema) =>
             /\ ~parse_inverter_data(inverter_texts[j]).ok
             /\ <<"inverter", j - 1>> \in Range(st_errors)
    /\ \A j \in 1..i_panel :
          MalformedFloat(panel_texts[j], PanelSchema) =>
             /\ ~parse_solar_panel_data(panel_texts[j], "down", "down").ok
             /\ <<"panel", j - 1>> \in Range(st_errors)
    /\ \A j \in 1..i_inv :
          InverterOk(inverter_texts[j]) =>
             /\ parse_inverter_data(inverter_texts[j]).specs \in Range(inverter_data)
             /\ <<"inverter", j - 1>> \notin Range(st_errors)
    /\ \A j \in 1..i_panel :
          PanelOk(panel_texts[j]) =>
             /\ PanelRecords(panel_texts[j]) \cap Range(panel_data) # {}
             /\ <<"panel", j - 1>> \notin Range(st_errors)
    /\ Len(inverter_data) + Cardinality({j \in 1..i_inv :
                               MalformedFloat(inverter_texts[j], InverterSchema)})
          <= i_inv
    /\ Len(panel_data) + Cardinality({j \in 1..i_panel :
                               MalformedFloat(panel_texts[j], PanelSchema)})
          <= i_panel

C1_Witness ==
    /\ i_panel = 3
    /\ PanelOk(panel_texts[1])
    /\ MalformedFloat(panel_texts[2], PanelSchema)
    /\ PanelOk(panel_texts[3])
    /\ Len(panel_data) = 2
    /\ st_errors = <<<<"panel", 1>>>>

\* C2: the aggregate is exactly the records of the supplied (non-empty) inputs
\* whose parse succeeded, in submission order: the m-th record of the
\* aggregate is the record of the m-th successful input, nothing else is in
\* it, equal records are kept and failed parses leave no placeholder.
C2_AggregateIsSuccessesInOrder ==
    /\ LET ok == {j \in 1..i_inv : InverterOk(inverter_texts[j])}
       IN /\ Len(inverter_data) = Cardinality(ok)
          /\ \A j \in ok :
                inverter_data[Cardinality({h \in ok : h <= j})]
                   = parse_inverter_data(inverter_texts[j]).specs
    /\ LET ok == {j \in 1..i_panel : PanelOk(panel_texts[j])}
       IN /\ Len(panel_data) = Cardinality(ok)
          /\ \A j \in ok :
                panel_data[Cardinality({h \in ok : h <= j})]
                   \in PanelRecords(panel_texts[j])

C2_Witness ==
    /\ i_inv = 3
    /\ InverterOk(inverter_texts[1])
    /\ inverter_texts[2] # <<>> /\ ~InverterOk(inverter_texts[2])
    /\ InverterOk(inverter_texts[3])
    /\ inverter_texts[1] # inverter_texts[3]
    /\ inverter_data = <<parse_inverter_data(inverter_texts[1]).specs,
                         parse_inverter_data(inverter_texts[3]).specs>>

\* C8: every record in an aggregate has all declared keys, 19 for an inverter
\* and 21 for a panel, and a parse returns either such a record or failure.
C8_RecordsComplete ==
    /\ \A m \in 1..Len(inverter_data) :
          DOMAIN inverter_data[m] = InverterKeys
    /\ \A m \in 1..Len(panel_data) :
          DOMAIN panel_data[m] = PanelKeys
    /\ Cardinality(InverterKeys) = 19 /\ Cardinality(PanelKeys) = 21
    /\ InverterKeys = {e[1] : e \in InverterSchema}
    /\ PanelKeys = {e[1] : e \in PanelSchema}
                      \cup {"Panel_Area_m2", "Efficiency_percent"}
    /\ parsed_data.ok =>
          /\ DOMAIN parsed_data.specs \in {InverterKeys, PanelKeys}
          /\ i_panel = 0 => DOMAIN parsed_data.specs = InverterKeys
          /\ i_panel > 0 /\ raw_data # <<>> => DOMAIN parsed_data.specs = PanelKeys
    /\ ~parsed_data.ok => DOMAIN parsed_data = {"ok"}

C8_Witness ==
    /\ i_inv = num_inverters /\ i_panel = num_panels
    /\ Len(inverter_data) >= 1
    /\ Len(panel_data) >= 1
    /\ \E j \in 1..num_panels : panel_texts[j] = Join(SubSeq(PanelBase, 1, 8))
    /\ Len(st_errors) >= 1

----------------------------------------------------------------------------
(* Properties of one parser call *)

Default(type) == IF type = "string" THEN <<>> ELSE 0

\* every field at an index past the end of the line has its default, and a
\* failure is owed to a token that is there
ShortLineDefaults(schema) ==
    LET n == Len(Tokens)
    IN /\ parsed_data.ok =>
             \A e \in schema :
                e[2] >= n => parsed_data.specs[e[1]] = Default(e[3])
       /\ ~parsed_data.ok =>
             \E e \in schema :
                /\ e[3] \in {"float", "integer"}
                /\ Present(Tokens, e[2])
                /\ ~IsNumber(Tokens[e[2] + 1])

\* C3: a field whose index is past the end of the line resolves to its type
\* default and a short line is never rejected for being short; an inverter
\* line of 5 tokens gives a record with every numeric field 0, Phase "" and
\* Frequency_Hz 0.
C3_ShortLineDefaults ==
    /\ pc = "return_inverter" =>
          /\ ShortLineDefaults(InverterSchema)
          /\ Len(Tokens) = 5 =>
                /\ parsed_data.ok
                /\ \A e \in InverterSchema :
                      e[3] # "string" => parsed_data.specs[e[1]] = 0
                /\ parsed_data.specs.Phase = <<>>
                /\ parsed_data.specs.Frequency_Hz = 0
    /\ pc = "return_panel" => ShortLineDefaults(PanelSchema)

C3_Witness ==
    /\ pc = "return_inverter"
    /\ Len(Tokens) = 5
    /\ parsed_data.ok
    /\ parsed_data.specs.Manufacturer = <<"S", "M", "A">>
    /\ parsed_data.specs.Night_Consumption_W = 0

\* C4: a token 13 that contains 50/60, whatever surrounds it, gives
\* Frequency_Hz = 50, and so does the token "50".
C4_DualRatingIsFifty ==
    pc = "return_inverter" /\ Len(Tokens) > 13 /\ parsed_data.ok =>
       /\ Contains(Tokens[14], DualRating) => parsed_data.specs.Frequency_Hz = 50
       /\ Tokens[14] = <<"5", "0">> => parsed_data.specs.Frequency_Hz = 50

C4_Witness ==
    /\ pc = "return_inverter"
    /\ Len(Tokens) > 13
    /\ Tokens[14] = <<"5", "0", "/", "6", "0", "H", "z">>
    /\ parsed_data.ok
    /\ parsed_data.specs.Frequency_Hz = 50

\* no float-typed position of the line holds a present non-numeric token
FloatsClean(schema) ==
    \A e \in schema :
       e[3] = "float" /\ Present(Tokens, e[2]) => IsNumber(Tokens[e[2] + 1])

AsciiDigits(s) == s # <<>> /\ \A i \in 1..Len(s) : s[i] \in DecimalChars

\* C5: the content of panel tokens 12 and 13 never rejects the record, and
\* each field is the integer the trimmed token spells when it is all digits
\* and 0 otherwise.
C5_IntegerCoercionNonFatal ==
    pc = "return_panel" /\ FloatsClean(PanelSchema) =>
       /\ parsed_data.ok
       /\ \A e \in {<<"Cells_in_Series", 12>>, <<"Cells_in_Parallel", 13>>} :
             parsed_data.specs[e[1]] =
                IF Len(Tokens) > e[2] /\ AsciiDigits(Strip(Tokens[e[2] + 1]))
                THEN DigitsValue(Strip(Tokens[e[2] + 1]))
                ELSE 0

\* C6 as stated: Efficiency_percent is 0 exactly when Panel_Area_m2 is 0.
C6_EfficiencyZeroIffAreaZero ==
    pc = "return_panel" /\ parsed_data.ok =>
       (parsed_data.specs.Efficiency_percent = 0
           <=> parsed_data.specs.Panel_Area_m2 = 0)

\* C6 as amended: Panel_Area_m2 = 0 implies Efficiency_percent = 0 (the
\* efficiency is also 0 for a negative area and for a zero power).
C6_AreaZeroImpliesEfficiencyZero ==
    pc = "return_panel" /\ parsed_data.ok =>
       (parsed_data.specs.Panel_Area_m2 = 0
           => parsed_data.specs.Efficiency_percent = 0)

C6_Witness ==
    /\ pc = "return_panel"
    /\ parsed_data.ok
    /\ parsed_data.specs.Module_Length = 1
    /\ parsed_data.specs.Module_Width = 1
    /\ parsed_data.specs.Nominal_Power_W = 350
    /\ parsed_data.specs.Panel_Area_m2 = 0
    /\ parsed_data.specs.Efficiency_percent = 0

\* C7: Panel_Area_m2 is (Module_Length/1000)*(Module_Width/1000) rounded to
\* 3 decimals (it is within half a thousandth of the exact product), and for
\* a positive area Efficiency_percent is Nominal_Power_W/(area*1000)*100
\* rounded to 2 decimals (within half a hundredth), both from the fields of
\* the same record; 1700 x 1000 mm at 350 W give 1.700 and 20.59.
C7_DerivedMetrics ==
    pc = "return_panel" /\ parsed_data.ok =>
       LET r == parsed_data.specs
       IN /\ 2 * Abs(1000 * r.Panel_Area_m2 - r.Module_Length * r.Module_Width)
                <= 1000
          /\ r.Panel_Area_m2 > 0 =>
                2 * Abs(r.Efficiency_percent * r.Panel_Area_m2
                           - 10000 * r.Nominal_Power_W)
                   <= r.Panel_Area_m2
          /\ r.Module_Length = 1700 /\ r.Module_Width = 1000
                /\ r.Nominal_Power_W = 350
                => r.Panel_Area_m2 = 1700 /\ r.Efficiency_percent = 2059

C7_Witness ==
    /\ pc = "return_panel"
    /\ parsed_data.ok
    /\ parsed_data.specs.Module_Length = 1700
    /\ parsed_data.specs.Module_Width = 1000
    /\ parsed_data.specs.Nominal_Power_W = 350
    /\ parsed_data.specs.Panel_Area_m2 = 1700
    /\ parsed_data.specs.Efficiency_percent = 2059

\* s without a unit marker at its end, trimmed
WithoutTrailingHz(s) ==
    IF Len(s) >= 2 /\ SubSeq(s, Len(s) - 1, Len(s)) = UnitHz
    THEN Strip(SubSeq(s, 1, Len(s) - 2))
    ELSE s

\* the character at position i of s belongs to no occurrence of the marker
OutsideHz(s, i) ==
    /\ ~(s[i] = "h" /\ i < Len(s) /\ s[i + 1] = "z")
    /\ ~(s[i] = "z" /\ i > 1 /\ s[i - 1] = "h")

RECURSIVE OutsideHzFrom(_, _)
OutsideHzFrom(s, i) ==
    IF i > Len(s) THEN <<>>
    ELSE IF OutsideHz(s, i) THEN <<s[i]>> \o OutsideHzFrom(s, i + 1)
         ELSE OutsideHzFrom(s, i + 1)

\* s without the characters of any occurrence of the unit marker, trimmed
WithoutAnyHz(s) == Strip(OutsideHzFrom(s, 1))

FrequencyOf(body) == IF IsNumber(body) THEN NumberValue(body) ELSE 0

\* C9 as stated: for a token 13 without 50/60 only a trailing 'hz' is removed
\* before the number is parsed, anything else that is no number gives 0, and
\* token 13 never rejects the record.
C9_TrailingHzOnly ==
    pc = "return_inverter" /\ Len(Tokens) > 13 /\ FloatsClean(InverterSchema)
       /\ ~Contains(Lower(Tokens[14]), DualRating) =>
       /\ parsed_data.ok
       /\ parsed_data.specs.Frequency_Hz
             = FrequencyOf(WithoutTrailingHz(Lower(Strip(Tokens[14]))))

\* C9 as amended: for a token 13 without 50/60 every occurrence of 'hz'
\* (case-insensitive), wherever it stands, is removed before the number is
\* parsed, a remainder that is no number gives 0, and token 13 never rejects
\* the record.
C9_EveryHzRemoved ==
    pc = "return_inverter" /\ Len(Tokens) > 13 /\ FloatsClean(InverterSchema)
       /\ ~Contains(Lower(Tokens[14]), DualRating) =>
       /\ parsed_data.ok
       /\ parsed_data.specs.Frequency_Hz
             = FrequencyOf(WithoutAnyHz(Lower(Strip(Tokens[14]))))

C9_Witness ==
    /\ pc = "return_inverter"
    /\ Len(Tokens) > 13
    /\ Tokens[14] = <<"h", "z", "5", "0">>
    /\ parsed_data.ok
    /\ parsed_data.specs.Frequency_Hz = 50

----------------------------------------------------------------------------
(* Properties of the session counters *)

\* C10: each instance counter stays within 1..50, so Add at 50 and Remove at
\* 1 change nothing, a click moves a counter by at most one, and a click on
\* one kind's buttons leaves the other kind's counter alone.
C10_CountersBounded ==
    /\ [](num_inverters \in 1..50 /\ num_panels \in 1..50)
    /\ [][/\ Abs(num_inverters' - num_inverters) <= 1
          /\ Abs(num_panels' - num_panels) <= 1
          /\ num_inverters' = num_inverters \/ num_panels' = num_panels]_vars

C10_Witness == num_inverters = 50 /\ num_panels = 2

====
